---- MODULE Spec2Model ----
(***************************************************************************)
(* Model of civitai_models_manager/modules/create.py: the interactive      *)
(* image-creation flow (create_image_cli), the request builder and         *)
(* submitter (generate_image, get_lora_details) and the job reporter       *)
(* (fetch_job_details, cancel_job).                                        *)
(*                                                                         *)
(* Python values are tagged records.  Text that the code parses is a       *)
(* sequence of one-character strings; text that is only passed along       *)
(* (identifiers, airs, prompts) is a TLA+ string.                          *)
(***************************************************************************)
EXTENDS Integers, Sequences, FiniteSets, TLC

(* ---------------- bounds of the model ---------------- *)
MaxVersions == 2
MaxLoras == 2
MaxSchedulerChoice == 2

(* ---------------- Python values ---------------- *)
None == [t |-> "None"]
PStr(s) == [t |-> "str", s |-> s]
PInt(n) == [t |-> "int", n |-> n]
PFloat(m, e) == [t |-> "float", m |-> m, e |-> e]

\* a value that is absent: an unassigned local, a missing dict key
Missing == [t |-> "missing"]

\* None as the answer of a questionary prompt whose values are plain strings
NoneStr == "<None>"

\* result of an expression: a value, or a raised exception
Ok(v) == [ok |-> TRUE, val |-> v, exc |-> ""]
Raise(e) == [ok |-> FALSE, val |-> Missing, exc |-> e]

(* ---------------- str -> int, str -> float ---------------- *)
Digits == <<"0", "1", "2", "3", "4", "5", "6", "7", "8", "9">>
IsDigit(c) == \E i \in 1..Len(Digits) : Digits[i] = c
DigitVal(c) == (CHOOSE i \in 1..Len(Digits) : Digits[i] = c) - 1
IsSpace(c) == c = " "
IsSign(c) == c = "+" \/ c = "-"

RECURSIVE LStrip(_)
LStrip(s) == IF s # <<>> /\ IsSpace(Head(s)) THEN LStrip(Tail(s)) ELSE s

RECURSIVE RStrip(_)
RStrip(s) ==
    IF s # <<>> /\ IsSpace(s[Len(s)]) THEN RStrip(SubSeq(s, 1, Len(s) - 1)) ELSE s

Strip(s) == RStrip(LStrip(s))

AllDigits(s) == \A i \in 1..Len(s) : IsDigit(s[i])

RECURSIVE DigitsVal(_)
DigitsVal(s) ==
    IF s = <<>> THEN 0
    ELSE 10 * DigitsVal(SubSeq(s, 1, Len(s) - 1)) + DigitVal(s[Len(s)])

\* the text after an optional sign, and the sign
Unsigned(s) == IF s # <<>> /\ IsSign(Head(s)) THEN Tail(s) ELSE s
SignOf(s) == IF s # <<>> /\ Head(s) = "-" THEN -1 ELSE 1

\* int(x) of Python for x None or a str over the characters of the model
\* (digits, sign, space, letters, '.'): [space] [sign] digits [space]
PyInt(x) ==
    IF x.t # "str" THEN Raise("TypeError")
    ELSE LET body == Unsigned(Strip(x.s))
         IN  IF body # <<>> /\ AllDigits(body)
             THEN Ok(PInt(SignOf(Strip(x.s)) * DigitsVal(body)))
             ELSE Raise("ValueError")

\* index of the first occurrence of c in s, 0 when there is none
RECURSIVE IndexOf(_, _, _)
IndexOf(s, c, i) ==
    IF i > Len(s) THEN 0 ELSE IF s[i] = c THEN i ELSE IndexOf(s, c, i + 1)

\* float(x) of Python for x None or a str over the characters of the model:
\* [space] [sign] (digits [. [digits]] | . digits) [space], value m * 10^e
PyFloat(x) ==
    IF x.t # "str" THEN Raise("TypeError")
    ELSE LET body == Unsigned(Strip(x.s))
             dot  == IndexOf(body, ".", 1)
             ip   == IF dot = 0 THEN body ELSE SubSeq(body, 1, dot - 1)
             fp   == IF dot = 0 THEN <<>> ELSE SubSeq(body, dot + 1, Len(body))
         IN  IF AllDigits(ip) /\ AllDigits(fp) /\ ip \o fp # <<>>
             THEN Ok(PFloat(SignOf(Strip(x.s)) * DigitsVal(ip \o fp), 0 - Len(fp)))
             ELSE Raise("ValueError")

\* s.split(c) of Python
RECURSIVE Split(_, _)
Split(s, c) ==
    LET i == IndexOf(s, c, 1)
    IN  IF i = 0 THEN <<s>>
        ELSE <<SubSeq(s, 1, i - 1)>> \o Split(SubSeq(s, i + 1, Len(s)), c)

\* width, height = map(int, width_height.split("x"))
ParseWidthHeight(x) ==
    IF x.t # "str" THEN Raise("AttributeError")
    ELSE LET parts == Split(x.s, "x")
         IN  IF \E i \in 1..Len(parts) : i <= 3 /\ ~PyInt(PStr(parts[i])).ok
                THEN Raise("ValueError")
             ELSE IF Len(parts) # 2 THEN Raise("ValueError")
             ELSE Ok(<<PyInt(PStr(parts[1])).val, PyInt(PStr(parts[2])).val>>)

(* ---------------- values of the environment ---------------- *)
\* the two metadata sources handed to create_image_cli / generate_image
CIVITAI_MODELS == "CIVITAI_MODELS"
CIVITAI_VERSIONS == "CIVITAI_VERSIONS"

ModelIds == {"m1"}
LoraIds == {"l1", "l2"}
Airs == {"air1", "air2"}
JobIds == {"job1", "job2"}
UserIds == {"user1"}

SCHEDULERS ==
    << "EulerA", "Euler", "LMS", "Heun", "DPM2", "DPM2A", "DPM2SA", "DPM2M",
       "DPMSDE", "DPMFast", "DPMAdaptive", "LMSKarras", "DPM2Karras",
       "DPM2AKarras", "DPM2SAKarras", "DPM2MKarras", "DPMSDEKarras", "DDIM",
       "PLMS", "UniPC", "Undefined", "LCM", "DDPM", "DEIS" >>

\* every exception of the model is a subclass of Exception
ExceptionClasses ==
    {"ApiException", "TypeError", "ValueError", "AttributeError", "KeyError", "IndexError"}
IsException(e) == e \in ExceptionClasses

\* sequences over S of length at most n
BoundedSeq(S, n) == UNION {[1..k -> S] : k \in 0..n}

\* a local that has not been assigned yet (plain-string locals)
Unset == "<unset>"

\* truth value of a plain string or None
Truthy(s) == s # NoneStr /\ s # ""

\* a dict, and its truth value
PDict(d) == [t |-> "dict", d |-> d]
TruthyVal(v) == v.t = "dict" /\ DOMAIN v.d # {}

(* ---------------- metadata lookup (details.py) ---------------- *)
\* a version record; the "air" key is absent when a = ""
Version(i, a) == IF a = "" THEN [id |-> i] ELSE [id |-> i, air |-> a]
VersionsFrom(s) == [i \in 1..Len(s) |-> Version(i, s[i])]
VersionLists(n) == {VersionsFrom(s) : s \in BoundedSeq(Airs \cup {""}, n)}

\* v["air"]
GetAir(v) == IF "air" \in DOMAIN v THEN Ok(v.air) ELSE Raise("KeyError")
\* v.get("air")
GetAirOrNone(v) == IF "air" \in DOMAIN v THEN v.air ELSE NoneStr

\* what get_model_details can produce for the requested model: an exception,
\* null, or a record with its versions
MetadataOutcomes ==
    {Raise("ApiException"), Ok(None)} \cup
    {Ok([versions |-> vs]) : vs \in VersionLists(MaxVersions)}

\* what process_model_data can produce for a raw record: null, the normalized
\* record with the versions of the raw record or with none, or an exception
ProcessModelData(raw_model) ==
    IF raw_model = None THEN {Ok(None)}
    ELSE { Ok(None), Ok([versions |-> raw_model.versions]), Ok([versions |-> <<>>]),
           Raise("KeyError") }

\* what get_model_details can produce for a LoRA lookup
LoraRecords ==
    {[type |-> ty, versions |-> vs] : ty \in {"LORA", "Checkpoint"}, vs \in VersionLists(1)}
LoraOutcomes == {Raise("ApiException"), Ok(None)} \cup {Ok(r) : r \in LoraRecords}

(* ---------------- remote generation API (civitai) ---------------- *)
SubmitOutcomes ==
    {Raise("ApiException"), Ok(None)} \cup
    {Ok(PDict([token |-> "tok"]))} \cup
    {Ok(PDict([jobId |-> j, token |-> "tok"])) : j \in JobIds}

JobOutcomes ==
    {Raise("ApiException"), Ok(None), Ok(PDict([status |-> "ok"]))}

(* ---------------- inputs of the operator ---------------- *)
\* the LoRA lists create_image_cli is invoked with
CliLoraLists == {<<>>, <<"l1">>}

PosPromptAnswers == {NoneStr, "", "a cat"}
NegPromptAnswers == {NoneStr, "blurry"}
WidthHeightAnswers ==
    { None,
      PStr(<<"1", "0", "2", "4", "x", "7", "6", "8">>),
      PStr(<<" ", "-", "1", "x", "+", "2">>),
      PStr(<<"1", "0", "2", "4">>),
      PStr(<<"1", "x", "2", "x", "3">>),
      PStr(<<"5", "1", "2", "X", "5", "1", "2">>),
      PStr(<<"1", ".", "5", "x", "2">>),
      PStr(<<"x">>),
      PStr(<<>>) }
SchedulerAnswers == {NoneStr} \cup {SCHEDULERS[i] : i \in 1..MaxSchedulerChoice}
StepsAnswers ==
    { None, PStr(<<"3", "0">>), PStr(<<>>), PStr(<<"2", ".", "5">>), PStr(<<"a">>) }
CfgScaleAnswers ==
    { None, PStr(<<"7", ".", "5">>), PStr(<<"7">>), PStr(<<>>), PStr(<<"h", "i">>),
      PStr(<<"1", ".", "2", ".", "3">>) }

(* ---------------- state ---------------- *)
VARIABLES
    op,              \* the entry point that was invoked
    pc,              \* position of the run
    requested_model, \* create_image_cli argument
    lora_list,       \* create_image_cli / generate_image argument
    selected_model,  \* selected_model["versions"]
    arn,             \* arn of create_image_cli, air of generate_image
    pos_prompt, neg_prompt, width_height, width, height,
    scheduler, steps, cfg_scale,
    input_data,      \* the request under construction in generate_image
    lora_i,          \* index of the loop over lora_list
    response,        \* value returned by generate_image
    job_id, user_id, detailed,  \* arguments of fetch_job_details / cancel_job
    calls,           \* remote calls made so far, in order
    messages,        \* feedback_message / console output, in order
    prompts,         \* questions shown to the operator, in order
    result,          \* value returned by the entry point
    escaped          \* exception that left the entry point, "" when none

args == <<op, requested_model, lora_list, job_id, user_id, detailed>>
cliLocals ==
    <<selected_model, arn, pos_prompt, neg_prompt, width_height, width, height,
      scheduler, steps, cfg_scale>>
genLocals == <<input_data, lora_i, response>>
io == <<calls, messages, prompts>>
vars == <<args, pc, cliLocals, genLocals, io, result, escaped>>

Msg(sev, text, arg) == [sev |-> sev, text |-> text, arg |-> arg]
\* print_json(data=v)
Json(v) == [sev |-> "json", text |-> "", data |-> v]
\* a remote call and how it ended: the exception raised ("" when none) and the
\* value returned
Call(fn, a, kw, o) ==
    [fn |-> fn, args |-> a, kwargs |-> kw, exc |-> o.exc, ret |-> o.val]
NoKw == [x \in {} |-> ""]

(* ---------------- initial states: one invocation of an entry point ------- *)
NoLocals ==
    /\ selected_model = <<>>
    /\ width_height = Missing
    /\ input_data = Missing
    /\ lora_i = 0
    /\ response = Missing
    /\ calls = <<>>
    /\ messages = <<>>
    /\ prompts = <<>>
    /\ result = Missing
    /\ escaped = ""

InitCli ==
    /\ op = "create_image_cli"
    /\ pc = "cli_start"
    /\ requested_model \in ModelIds
    /\ lora_list \in CliLoraLists
    /\ arn = Unset /\ pos_prompt = Unset /\ neg_prompt = Unset /\ scheduler = Unset
    /\ width = Missing /\ height = Missing /\ steps = Missing /\ cfg_scale = Missing
    /\ job_id = Unset /\ user_id = Unset /\ detailed = FALSE
    /\ NoLocals

InitGen ==
    /\ op = "generate_image"
    /\ pc = "gen_start"
    /\ requested_model = Unset
    /\ lora_list \in BoundedSeq(LoraIds, MaxLoras)
    /\ arn \in Airs
    /\ pos_prompt = "a cat" /\ neg_prompt = "blurry"
    /\ scheduler = SCHEDULERS[1]
    /\ width = PInt(1024) /\ height = PInt(768)
    /\ steps = PInt(30) /\ cfg_scale = PFloat(75, -1)
    /\ job_id = Unset /\ user_id = Unset /\ detailed = FALSE
    /\ NoLocals

InitFetch ==
    /\ op = "fetch_job_details"
    /\ pc = "fetch_start"
    /\ job_id \in JobIds \cup {"", NoneStr}
    /\ user_id \in UserIds \cup {"", NoneStr}
    /\ detailed \in BOOLEAN
    /\ requested_model = Unset /\ lora_list = <<>>
    /\ arn = Unset /\ pos_prompt = Unset /\ neg_prompt = Unset /\ scheduler = Unset
    /\ width = Missing /\ height = Missing /\ steps = Missing /\ cfg_scale = Missing
    /\ NoLocals

InitCancel ==
    /\ op = "cancel_job"
    /\ pc = "cancel_start"
    /\ job_id \in JobIds \cup {"", NoneStr}
    /\ user_id = Unset /\ detailed = FALSE
    /\ requested_model = Unset /\ lora_list = <<>>
    /\ arn = Unset /\ pos_prompt = Unset /\ neg_prompt = Unset /\ scheduler = Unset
    /\ width = Missing /\ height = Missing /\ steps = Missing /\ cfg_scale = Missing
    /\ NoLocals

Init == InitCli \/ InitGen \/ InitFetch \/ InitCancel

(* ---------------- create_image_cli ---------------- *)
\* except Exception as e  (line 281)
CreateImageCliCatches(e) == IsException(e)

\* an exception e raised inside the try block of create_image_cli, after the
\* messages ms were emitted
CliRaise(ms, e) ==
    /\ pc' = "done"
    /\ IF CreateImageCliCatches(e)
       THEN /\ messages' = messages \o ms
                             \o <<Msg("error", "An unexpected error occurred", e)>>
            /\ result' = None
            /\ escaped' = escaped
       ELSE /\ messages' = messages \o ms
            /\ result' = result
            /\ escaped' = e

\* a return statement of create_image_cli after the messages ms
CliReturn(ms) ==
    /\ pc' = "done"
    /\ messages' = messages \o ms
    /\ result' = None
    /\ escaped' = escaped

\* the run goes on to position p
CliGoto(p) ==
    /\ pc' = p
    /\ UNCHANGED <<messages, result, escaped>>

Ask(q) == prompts' = Append(prompts, q)

\* not processed_model  (line 185)
ModelNotFound(processed_model) == processed_model = None

\* processed_model if processed_model["versions"] else raw_model  (line 189)
SelectModel(raw_model, processed_model) ==
    IF processed_model.versions # <<>> THEN processed_model ELSE raw_model

\* variant: the version question is asked for a single version too
HasSomeVersion(versions) == Len(versions) >= 1

\* len(selected_model["versions"]) > 1  (line 192)
HasSeveralVersions(versions) == Len(versions) > 1

\* selected_model["versions"][0]["air"]  (line 212)
FirstVersionAir(versions) ==
    IF versions = <<>> THEN Raise("IndexError") ELSE GetAir(versions[1])

\* lines 183-212: metadata fetch, then either the version question is asked or
\* the only version is taken and the positive-prompt question is asked
CliStart ==
    /\ pc = "cli_start"
    /\ \E o \in MetadataOutcomes :
        /\ calls' = Append(calls,
               Call("get_model_details",
                    <<CIVITAI_MODELS, CIVITAI_VERSIONS, requested_model>>, NoKw, o))
        /\ IF ~o.ok
           THEN /\ CliRaise(<<>>, o.exc)
                /\ UNCHANGED <<selected_model, arn, prompts>>
           ELSE \E p \in ProcessModelData(o.val) :
           IF ~p.ok
           THEN /\ CliRaise(<<>>, p.exc)
                /\ UNCHANGED <<selected_model, arn, prompts>>
           ELSE IF ModelNotFound(p.val)
           THEN /\ CliReturn(<<Msg("error", "No model found with ID", requested_model)>>)
                /\ UNCHANGED <<selected_model, arn, prompts>>
           ELSE LET versions == SelectModel(o.val, p.val).versions
                    a == FirstVersionAir(versions)
                IN  /\ selected_model' = versions
                    /\ IF HasSeveralVersions(versions)
                       THEN /\ Ask("Select a version")
                            /\ CliGoto("cli_select_version")
                            /\ arn' = arn
                       ELSE IF a.ok
                       THEN /\ arn' = a.val
                            /\ Ask("Enter positive prompt:")
                            /\ CliGoto("cli_pos_prompt")
                       ELSE /\ CliRaise(<<>>, a.exc)
                            /\ UNCHANGED <<arn, prompts>>
    /\ UNCHANGED <<args, pos_prompt, neg_prompt, width_height, width, height,
                   scheduler, steps, cfg_scale, genLocals>>

\* lines 200-210: the answer to the version question
CliSelectVersion ==
    /\ pc = "cli_select_version"
    /\ \E selected_version \in
            {None} \cup {selected_model[i] : i \in 1..Len(selected_model)} :
        IF selected_version = None
        THEN /\ CliReturn(<<Msg("error", "No version selected. Aborting.", "")>>)
             /\ UNCHANGED <<arn, prompts>>
        ELSE LET a == GetAir(selected_version)
             IN  IF a.ok
                 THEN /\ arn' = a.val
                      /\ Ask("Enter positive prompt:")
                      /\ CliGoto("cli_pos_prompt")
                 ELSE /\ CliRaise(<<>>, a.exc)
                      /\ UNCHANGED <<arn, prompts>>
    /\ UNCHANGED <<args, selected_model, pos_prompt, neg_prompt, width_height, width,
                   height, scheduler, steps, cfg_scale, genLocals, calls>>

\* variant: only the empty string is taken as a missing prompt
PromptMissingOnlyEmpty(p) == p = ""

\* not pos_prompt  (line 217)
PromptMissing(p) == ~Truthy(p)

\* lines 216-221: the answer to the positive-prompt question
CliPosPrompt ==
    /\ pc = "cli_pos_prompt"
    /\ \E answer \in PosPromptAnswers :
        /\ pos_prompt' = answer
        /\ IF PromptMissing(answer)
           THEN /\ CliReturn(<<Msg("error", "Positive prompt is required.", "")>>)
                /\ UNCHANGED prompts
           ELSE /\ Ask("Enter negative prompt (optional):")
                /\ CliGoto("cli_neg_prompt")
    /\ UNCHANGED <<args, selected_model, arn, neg_prompt, width_height, width, height,
                   scheduler, steps, cfg_scale, genLocals, calls>>

\* lines 221-223: the answer to the negative-prompt question
CliNegPrompt ==
    /\ pc = "cli_neg_prompt"
    /\ \E answer \in NegPromptAnswers :
        /\ neg_prompt' = answer
        /\ Ask("Enter width x height (e.g., 1024x1024):")
        /\ CliGoto("cli_width_height")
    /\ UNCHANGED <<args, selected_model, arn, pos_prompt, width_height, width, height,
                   scheduler, steps, cfg_scale, genLocals, calls>>

\* variant: the handlers name another exception class
CatchesTypeError(e) == e = "TypeError"

\* except ValueError  (lines 226, 238, 247)
CatchesValueError(e) == e = "ValueError"

\* lines 223-233: the answer to the width x height question
CliWidthHeight ==
    /\ pc = "cli_width_height"
    /\ \E answer \in WidthHeightAnswers :
        LET r == ParseWidthHeight(answer)
        IN  /\ width_height' = answer
            /\ IF r.ok
               THEN /\ width' = r.val[1]
                    /\ height' = r.val[2]
                    /\ Ask("Select scheduler:")
                    /\ CliGoto("cli_scheduler")
               ELSE /\ UNCHANGED <<width, height, prompts>>
                    /\ IF CatchesValueError(r.exc)
                       THEN CliReturn(<<Msg("error",
                                "Invalid width x height format. Please use format like '1024x1024'.",
                                "")>>)
                       ELSE CliRaise(<<>>, r.exc)
    /\ UNCHANGED <<args, selected_model, arn, pos_prompt, neg_prompt,
                   scheduler, steps, cfg_scale, genLocals, calls>>

\* lines 233-235: the answer to the scheduler question
CliScheduler ==
    /\ pc = "cli_scheduler"
    /\ \E answer \in SchedulerAnswers :
        /\ scheduler' = answer
        /\ Ask("Enter number of steps:")
        /\ CliGoto("cli_steps")
    /\ UNCHANGED <<args, selected_model, arn, pos_prompt, neg_prompt, width_height,
                   width, height, steps, cfg_scale, genLocals, calls>>

\* lines 235-244: the answer to the steps question
CliSteps ==
    /\ pc = "cli_steps"
    /\ \E answer \in StepsAnswers :
        LET r == PyInt(answer)
        IN  IF r.ok
            THEN /\ steps' = r.val
                 /\ Ask("Enter CFG scale:")
                 /\ CliGoto("cli_cfg_scale")
            ELSE /\ steps' = answer
                 /\ UNCHANGED prompts
                 /\ IF CatchesValueError(r.exc)
                    THEN CliReturn(<<Msg("error",
                             "Invalid number of steps. Please enter an integer.", "")>>)
                    ELSE CliRaise(<<>>, r.exc)
    /\ UNCHANGED <<args, selected_model, arn, pos_prompt, neg_prompt, width_height,
                   width, height, scheduler, cfg_scale, genLocals, calls>>

\* lines 244-252: the answer to the CFG-scale question; generate_image is called
CliCfgScale ==
    /\ pc = "cli_cfg_scale"
    /\ \E answer \in CfgScaleAnswers :
        LET r == PyFloat(answer)
        IN  IF r.ok
            THEN /\ cfg_scale' = r.val
                 /\ CliGoto("gen_start")
            ELSE /\ cfg_scale' = answer
                 /\ IF CatchesValueError(r.exc)
                    THEN CliReturn(<<Msg("error",
                             "Invalid CFG scale. Please enter a number.", "")>>)
                    ELSE CliRaise(<<>>, r.exc)
    /\ UNCHANGED <<args, selected_model, arn, pos_prompt, neg_prompt, width_height,
                   width, height, scheduler, steps, genLocals, calls, prompts>>

(* ---------------- generate_image ---------------- *)
\* variant: the handler of generate_image names one exception class
GenerateImageCatchesValueError(e) == e = "ValueError"

\* except Exception as e  (line 134)
GenerateImageCatches(e) == IsException(e)
\* except Exception as e  (line 73)
GetLoraDetailsCatches(e) == IsException(e)
\* except Exception as e  (line 159)
FetchJobDetailsCatches(e) == IsException(e)
\* except Exception as e  (line 172)
CancelJobCatches(e) == IsException(e)

\* an exception e that no handler of the running function caught
Uncaught(ms, e) ==
    IF op = "create_image_cli"
    THEN CliRaise(ms, e)
    ELSE /\ pc' = "done"
         /\ messages' = messages \o ms
         /\ result' = result
         /\ escaped' = e

\* generate_image returns v after the messages ms
GenReturn(ms, v) ==
    /\ response' = v
    /\ messages' = messages \o ms
    /\ escaped' = escaped
    /\ IF op = "create_image_cli"
       THEN pc' = "cli_response" /\ result' = result
       ELSE pc' = "done" /\ result' = v

\* if lora_list:  (line 109)
HasLoras(l) == l # <<>>

\* variant: the request always carries the auxiliary-network key
BaseRequestWithNetworks ==
    [ model  |-> arn,
      params |-> [ prompt         |-> pos_prompt,
                   negativePrompt |-> neg_prompt,
                   scheduler      |-> scheduler,
                   steps          |-> steps,
                   cfgScale       |-> cfg_scale,
                   width          |-> width,
                   height         |-> height,
                   seed           |-> -1,
                   clipSkip       |-> 1 ],
      additionalNetworks |-> [a \in {} |-> None] ]

\* lines 94-107
BaseRequest ==
    [ model  |-> arn,
      params |-> [ prompt         |-> pos_prompt,
                   negativePrompt |-> neg_prompt,
                   scheduler      |-> scheduler,
                   steps          |-> steps,
                   cfgScale       |-> cfg_scale,
                   width          |-> width,
                   height         |-> height,
                   seed           |-> -1,
                   clipSkip       |-> 1 ] ]

EmptyNetworks == [a \in {} |-> None]

\* lines 92-111 and, without LoRAs, 127-129
GenStart ==
    /\ pc = "gen_start"
    /\ IF HasLoras(lora_list)
       THEN /\ input_data' = BaseRequest @@ [additionalNetworks |-> EmptyNetworks]
            /\ lora_i' = 1
            /\ pc' = "gen_lora"
            /\ messages' = messages \o
                  << Msg("info", "Generating the image...", ""),
                     Msg("info", "Processing LoRA models", ToString(Len(lora_list))) >>
       ELSE /\ input_data' = BaseRequest
            /\ lora_i' = lora_i
            /\ pc' = "gen_submit"
            /\ messages' = messages \o
                  << Msg("info", "Generating the image...", ""),
                     Msg("info", "Submitting image generation request...", ""),
                     Msg("console", "Input data:", ""),
                     Json(BaseRequest) >>
    /\ UNCHANGED <<args, cliLocals, response, calls, prompts, result, escaped>>

\* variant: the type of the record is not tested
IsLoraAnyType(data) == data # None

\* lora_data and lora_data.get("type") == "LORA"  (line 68)
IsLora(data) == data # None /\ data.type = "LORA"

\* get_lora_details (lines 61-75) with its three parameters in declared order and
\* o, what get_model_details produces: the call made, the value returned, the
\* messages emitted
GetLoraDetails(p_CIVITAI_MODELS, p_CIVITAI_VERSIONS, p_lora_id, o) ==
    LET call == Call("get_model_details",
                     <<p_CIVITAI_MODELS, p_CIVITAI_VERSIONS, p_lora_id>>, NoKw, o)
    IN  IF ~o.ok
        THEN [ call |-> call, ok |-> GetLoraDetailsCatches(o.exc), exc |-> o.exc,
               ret |-> None,
               msgs |-> IF GetLoraDetailsCatches(o.exc)
                        THEN <<Msg("error", "Error fetching LoRA details", o.exc)>>
                        ELSE <<>> ]
        ELSE IF IsLora(o.val)
        THEN [call |-> call, ok |-> TRUE, exc |-> "", ret |-> o.val, msgs |-> <<>>]
        ELSE [ call |-> call, ok |-> TRUE, exc |-> "", ret |-> None,
               msgs |-> <<Msg("error", "Model with ID is not a LoRA.", p_lora_id)>> ]

\* the call of line 113: get_lora_details(lora_id, CIVITAI_MODELS, CIVITAI_VERSIONS)
CallGetLoraDetails(lora_id, o) ==
    GetLoraDetails(lora_id, CIVITAI_MODELS, CIVITAI_VERSIONS, o)

\* lora_data and 'versions' in lora_data and lora_data['versions']  (line 114)
HasVersions(data) == data # None /\ data.versions # <<>>

\* input_data["additionalNetworks"][lora_air] = {...}  (lines 117-120)
AddNetwork(nets, lora_air) ==
    [a \in DOMAIN nets \cup {lora_air} |->
        IF a = lora_air THEN [type |-> "Lora", strength |-> PFloat(1, 0)] ELSE nets[a]]

\* lines 112-129: one iteration of the loop over lora_list
GenLora ==
    /\ pc = "gen_lora"
    /\ \E o \in LoraOutcomes :
        LET lora_id  == lora_list[lora_i]
            d        == CallGetLoraDetails(lora_id, o)
            lora_air == IF HasVersions(d.ret)
                        THEN GetAirOrNone(d.ret.versions[1]) ELSE NoneStr
            data     == IF HasVersions(d.ret) /\ Truthy(lora_air)
                        THEN [input_data EXCEPT !.additionalNetworks =
                                 AddNetwork(@, lora_air)]
                        ELSE input_data
            ms       == d.msgs \o
                        IF ~HasVersions(d.ret)
                        THEN <<Msg("warning", "Failed to get details for LoRA ID", lora_id)>>
                        ELSE IF Truthy(lora_air)
                        THEN <<Msg("info", "Added LoRA", lora_air)>>
                        ELSE <<Msg("warning", "LoRA AIR not found for ID", lora_id)>>
        IN  /\ calls' = Append(calls, d.call)
            /\ IF ~d.ok
               THEN /\ UNCHANGED <<input_data, lora_i>>
                    /\ IF GenerateImageCatches(d.exc)
                       THEN GenReturn(d.msgs \o
                                <<Msg("error", "Error generating image", d.exc)>>, None)
                       ELSE Uncaught(d.msgs, d.exc) /\ response' = response
               ELSE /\ input_data' = data
                    /\ UNCHANGED <<response, result, escaped>>
                    /\ IF lora_i < Len(lora_list)
                       THEN /\ lora_i' = lora_i + 1
                            /\ pc' = pc
                            /\ messages' = messages \o ms
                       ELSE /\ lora_i' = lora_i
                            /\ pc' = "gen_submit"
                            /\ messages' = messages \o ms \o
                                  << Msg("info", "Submitting image generation request...", ""),
                                     Msg("console", "Input data:", ""),
                                     Json(data) >>
    /\ UNCHANGED <<args, cliLocals, prompts>>

\* lines 131-136: the submit call and its outcome
GenSubmit ==
    /\ pc = "gen_submit"
    /\ \E o \in SubmitOutcomes :
        /\ calls' = Append(calls, Call("civitai.image.create", <<input_data>>, NoKw, o))
        /\ IF o.ok
           THEN GenReturn(<<Msg("success",
                    "Image generation request submitted successfully.", "")>>, o.val)
           ELSE IF GenerateImageCatches(o.exc)
           THEN GenReturn(<<Msg("error", "Error generating image", o.exc)>>, None)
           ELSE Uncaught(<<>>, o.exc) /\ response' = response
    /\ UNCHANGED <<args, cliLocals, input_data, lora_i, prompts>>

(* ---------------- fetch_job_details, cancel_job ---------------- *)
\* positional parameters of fetch_job_details, none with a default  (line 139)
FetchJobDetailsParams == 3

\* binding the positional arguments of a call to n required parameters
BindArgs(supplied, n) == IF Len(supplied) = n THEN Ok(supplied) ELSE Raise("TypeError")

\* variant: the user id is tested before the job id
FetchBranchUserFirst(jid, uid) ==
    IF Truthy(uid) THEN "query" ELSE IF Truthy(jid) THEN "get" ELSE "none"

\* the branch fetch_job_details takes  (lines 142, 149, 157)
FetchBranch(jid, uid) ==
    IF Truthy(jid) THEN "get" ELSE IF Truthy(uid) THEN "query" ELSE "none"

\* a function that returns None after the messages ms
PlainReturn(ms) ==
    /\ pc' = "done"
    /\ messages' = messages \o ms
    /\ result' = None
    /\ escaped' = escaped

\* lines 139-160
FetchJobDetails ==
    /\ pc = "fetch_start"
    /\ \E o \in JobOutcomes :
        LET branch == FetchBranch(job_id, user_id)
            call   == IF branch = "get"
                      THEN Call("civitai.jobs.get", <<>>, [id |-> job_id], o)
                      ELSE Call("civitai.jobs.query", <<>>,
                                [ detailed |-> detailed,
                                  query_jobs_request |->
                                      [properties |-> [userId |-> user_id]] ], o)
        IN  IF branch = "none"
            THEN /\ PlainReturn(<<Msg("error",
                        "Please provide either a job ID or a user ID.", "")>>)
                 /\ calls' = calls
            ELSE /\ calls' = Append(calls, call)
                 /\ IF ~o.ok
                    THEN IF FetchJobDetailsCatches(o.exc)
                         THEN PlainReturn(<<Msg("error", "Error fetching job details", o.exc)>>)
                         ELSE Uncaught(<<>>, o.exc)
                    ELSE IF TruthyVal(o.val)
                    THEN PlainReturn(
                            << Msg("console",
                                   IF branch = "get" THEN "Job details:" ELSE "Jobs:", ""),
                               Json(o.val) >>)
                    ELSE PlainReturn(
                            <<Msg("warning",
                                  IF branch = "get" THEN "No job details found."
                                  ELSE "No jobs found for the given user ID.", "")>>)
    /\ UNCHANGED <<args, cliLocals, genLocals, prompts>>

\* lines 163-173
CancelJob ==
    /\ pc = "cancel_start"
    /\ \E o \in JobOutcomes :
        /\ calls' = Append(calls, Call("civitai.jobs.cancel", <<job_id>>, NoKw, o))
        /\ IF ~o.ok
           THEN IF CancelJobCatches(o.exc)
                THEN PlainReturn(<<Msg("error", "Error cancelling job", o.exc)>>)
                ELSE Uncaught(<<>>, o.exc)
           ELSE IF TruthyVal(o.val)
           THEN PlainReturn(<< Msg("console", "Job cancellation response:", ""),
                               Json(o.val) >>)
           ELSE PlainReturn(<<Msg("error", "Failed to cancel the job.", "")>>)
    /\ UNCHANGED <<args, cliLocals, genLocals, prompts>>

(* ---------------- create_image_cli, after generate_image ---------------- *)
\* lines 266-279: the response of generate_image is reported and the job lookup
\* fetch_job_details(response["jobId"]) is called
CliResponse ==
    /\ pc = "cli_response"
    /\ LET shown == << Msg("console", "Image generation response:", ""),
                       Json(response) >>
       IN  IF ~TruthyVal(response)
           THEN /\ CliReturn(<<Msg("error", "Image generation failed.", "")>>)
                /\ UNCHANGED <<job_id, user_id, detailed>>
           ELSE IF "jobId" \notin DOMAIN response.d
           THEN /\ CliReturn(shown \o
                       <<Msg("warning", "No job ID found in the response.", "")>>)
                /\ UNCHANGED <<job_id, user_id, detailed>>
           ELSE LET b == BindArgs(<<response.d.jobId>>, FetchJobDetailsParams)
                IN  IF b.ok
                    THEN /\ job_id' = b.val[1]
                         /\ user_id' = b.val[2]
                         /\ detailed' = b.val[3]
                         /\ pc' = "fetch_start"
                         /\ messages' = messages \o shown
                         /\ UNCHANGED <<result, escaped>>
                    ELSE /\ CliRaise(shown, b.exc)
                         /\ UNCHANGED <<job_id, user_id, detailed>>
    /\ UNCHANGED <<op, requested_model, lora_list, cliLocals, genLocals, calls, prompts>>

(* ---------------- specification ---------------- *)
Next ==
    \/ CliStart
    \/ CliSelectVersion
    \/ CliPosPrompt
    \/ CliNegPrompt
    \/ CliWidthHeight
    \/ CliScheduler
    \/ CliSteps
    \/ CliCfgScale
    \/ GenStart
    \/ GenLora
    \/ GenSubmit
    \/ CliResponse
    \/ FetchJobDetails
    \/ CancelJob

Spec == Init /\ [][Next]_vars

(* ---------------- properties ---------------- *)
HasMsg(m) == \E k \in 1..Len(messages) : messages[k] = m
LastMsg == messages[Len(messages)]
Cli == op = "create_image_cli"

\* the submit calls of the run and the request each one carried
SubmitIdx == {i \in 1..Len(calls) : calls[i].fn = "civitai.image.create"}
Request(i) == calls[i].args[1]

\* the LoRA lookups of the run: lookup i is the one made for lora_list[i]
LookupBase == IF Cli THEN 1 ELSE 0
LookupIdx ==
    {i \in 1..Len(lora_list) :
        /\ LookupBase + i <= Len(calls)
        /\ calls[LookupBase + i].fn = "get_model_details"}
Lookup(i) == calls[LookupBase + i]

\* lookup i returned a record, of type ty, whose first version has the air a
ReturnedRecord(i) == Lookup(i).exc = "" /\ Lookup(i).ret # None
ReturnedAir(i, a) ==
    /\ ReturnedRecord(i)
    /\ Lookup(i).ret.versions # <<>>
    /\ "air" \in DOMAIN Lookup(i).ret.versions[1]
    /\ Lookup(i).ret.versions[1].air = a

SchedulerNames == {SCHEDULERS[i] : i \in 1..Len(SCHEDULERS)}

\* C1: in a run of create_image_cli a submit call happens only after an air was
\* taken from a version of the model, the positive prompt was non-empty, the
\* width x height answer parsed into two integers, the steps answer parsed as
\* an integer and the CFG-scale answer parsed as a float; the request carries
\* exactly these values, and a run in which one of them failed ends with no
\* submit call.
C1_SubmitOnlyAfterValidation ==
    Cli =>
      /\ \A i \in SubmitIdx :
            /\ \E k \in 1..Len(selected_model) :
                  "air" \in DOMAIN selected_model[k] /\ selected_model[k].air = arn
            /\ pos_prompt # Unset /\ Truthy(pos_prompt)
            /\ ParseWidthHeight(width_height).ok
            /\ <<width, height>> = ParseWidthHeight(width_height).val
            /\ steps.t = "int"
            /\ cfg_scale.t = "float"
            /\ Request(i).model = arn
            /\ Request(i).params = BaseRequest.params
      /\ ( \/ arn = Unset
           \/ ~Truthy(pos_prompt)
           \/ ~ParseWidthHeight(width_height).ok
           \/ steps.t # "int"
           \/ cfg_scale.t # "float" ) => SubmitIdx = {}

C1_Witness == Cli /\ pc = "done" /\ SubmitIdx # {}

\* C2 (as stated): a width x height answer that is not <int>x<int> aborts the run
\* before any network call at all, with the validation error.
WidthHeightRejected ==
    Cli /\ width_height # Missing /\ ~ParseWidthHeight(width_height).ok
WidthHeightError ==
    Msg("error", "Invalid width x height format. Please use format like '1024x1024'.", "")

C2_NoNetworkCallAtAll ==
    WidthHeightRejected => calls = <<>> /\ HasMsg(WidthHeightError)

\* C2 (amended): a width x height answer that is not <int>x<int> ends the run
\* with the metadata fetch as its only network call (no LoRA fetch, no submit);
\* a string answer ends it with the validation error, a cancelled question
\* (None) with the unexpected-error message.
C2_AbortBeforeLoraAndSubmit ==
    WidthHeightRejected =>
      /\ pc = "done"
      /\ Len(calls) = 1
      /\ calls[1].fn = "get_model_details"
      /\ calls[1].args = <<CIVITAI_MODELS, CIVITAI_VERSIONS, requested_model>>
      /\ LastMsg = IF width_height.t = "str"
                   THEN WidthHeightError
                   ELSE Msg("error", "An unexpected error occurred", "AttributeError")

C2_Witness == WidthHeightRejected /\ width_height.t = "str" /\ pc = "done"

\* C3: once generate_image returned a response with a job id, the run of
\* create_image_cli ends with exactly one job-by-id query for that id, made
\* after the submit call, and with no error message.
C3_JobLookupFollowsSubmit ==
    (Cli /\ pc = "done" /\ response.t = "dict" /\ "jobId" \in DOMAIN response.d) =>
      /\ Cardinality({i \in 1..Len(calls) : calls[i].fn = "civitai.jobs.get"}) = 1
      /\ \E s \in SubmitIdx : \E i \in (s + 1)..Len(calls) :
            /\ calls[i].fn = "civitai.jobs.get"
            /\ calls[i].kwargs = [id |-> response.d.jobId]
      /\ \A k \in 1..Len(messages) : messages[k].sev # "error"

\* C4: fetch_job_details makes at most one remote call: the job-by-id fetch for
\* a non-empty job id (whatever the user id), the jobs query with the user id
\* and the detailed flag for an empty job id and a non-empty user id, and no
\* call but the error 'Please provide either a job ID or a user ID.' otherwise.
C4_FetchOneCall ==
    op = "fetch_job_details" =>
      /\ Len(calls) <= 1
      /\ pc = "done" =>
            IF job_id # "" /\ job_id # NoneStr
            THEN /\ Len(calls) = 1
                 /\ calls[1].fn = "civitai.jobs.get"
                 /\ calls[1].args = <<>>
                 /\ calls[1].kwargs = [id |-> job_id]
            ELSE IF user_id # "" /\ user_id # NoneStr
            THEN /\ Len(calls) = 1
                 /\ calls[1].fn = "civitai.jobs.query"
                 /\ calls[1].args = <<>>
                 /\ calls[1].kwargs =
                       [ detailed |-> detailed,
                         query_jobs_request |-> [properties |-> [userId |-> user_id]] ]
            ELSE /\ calls = <<>>
                 /\ messages =
                       <<Msg("error", "Please provide either a job ID or a user ID.", "")>>

C4_Witness ==
    /\ op = "fetch_job_details" /\ pc = "done"
    /\ job_id \in JobIds /\ user_id \in UserIds /\ Len(calls) = 1

\* C5 (as stated): a submitted request never carries an empty additionalNetworks
\* mapping.
C5_NoEmptyNetworks ==
    \A i \in SubmitIdx :
        "additionalNetworks" \in DOMAIN Request(i) =>
            DOMAIN Request(i).additionalNetworks # {}

\* C5 (amended): a submitted request carries the key additionalNetworks exactly
\* when the LoRA list is non-empty; the mapping is empty when no identifier of
\* the list contributed an entry.
C5_NetworksIffLoraList ==
    \A i \in SubmitIdx :
        /\ ("additionalNetworks" \in DOMAIN Request(i)) <=> (lora_list # <<>>)
        /\ "additionalNetworks" \in DOMAIN Request(i) =>
              (DOMAIN Request(i).additionalNetworks = {}
                  <=> ~\E k \in LookupIdx : \E a \in Airs :
                          ReturnedAir(k, a) /\ Lookup(k).ret.type = "LORA")

C5_Witness ==
    \E i \in SubmitIdx :
        /\ "additionalNetworks" \in DOMAIN Request(i)
        /\ DOMAIN Request(i).additionalNetworks = {}

\* C6: when the lookup for an identifier of the LoRA list returns a record whose
\* type is not 'LORA', a warning naming that identifier is emitted and the air
\* of that record is a key of the auxiliary-network mapping (under construction
\* or submitted) only if the lookup for another identifier returned a 'LORA'
\* record with the same air.
NonLoraExcludedFrom(nets, i) ==
    \A a \in Airs :
        (ReturnedAir(i, a) /\ a \in DOMAIN nets) =>
            \E j \in LookupIdx :
                j # i /\ ReturnedAir(j, a) /\ Lookup(j).ret.type = "LORA"

C6_NonLoraExcluded ==
    \A i \in LookupIdx :
        (ReturnedRecord(i) /\ Lookup(i).ret.type # "LORA") =>
            /\ HasMsg(Msg("warning", "Failed to get details for LoRA ID", lora_list[i]))
            /\ NonLoraExcludedFrom(input_data.additionalNetworks, i)
            /\ \A s \in SubmitIdx : NonLoraExcludedFrom(Request(s).additionalNetworks, i)

C6_Witness ==
    /\ SubmitIdx # {}
    /\ \E i \in LookupIdx : \E a \in Airs :
          ReturnedAir(i, a) /\ Lookup(i).ret.type # "LORA"

\* C7: when the model record has exactly one version, the version question is
\* never shown and the 'model' field of a submitted request is that version's
\* air.
C7_SingleVersion ==
    (Cli /\ Len(selected_model) = 1) =>
      /\ \A k \in 1..Len(prompts) : prompts[k] # "Select a version"
      /\ \A i \in SubmitIdx : Request(i).model = selected_model[1].air

C7_Witness == Cli /\ Len(selected_model) = 1 /\ SubmitIdx # {}

\* C8: no exception leaves an entry point; when the remote call of
\* generate_image, fetch_job_details or cancel_job raised, the operation has
\* emitted its error message and returned None; cancel_job emits an error for
\* an empty response and prints a non-empty one.
C8_RemoteErrorsContained ==
    /\ escaped = ""
    /\ \A i \in 1..Len(calls) :
          calls[i].exc # "" =>
             /\ calls[i].fn = "civitai.image.create" =>
                   /\ response = None
                   /\ HasMsg(Msg("error", "Error generating image", calls[i].exc))
                   /\ op = "generate_image" => (pc = "done" /\ result = None)
             /\ calls[i].fn \in {"civitai.jobs.get", "civitai.jobs.query"} =>
                   /\ pc = "done" /\ result = None
                   /\ LastMsg = Msg("error", "Error fetching job details", calls[i].exc)
             /\ calls[i].fn = "civitai.jobs.cancel" =>
                   /\ pc = "done" /\ result = None
                   /\ LastMsg = Msg("error", "Error cancelling job", calls[i].exc)
    /\ (op = "cancel_job" /\ pc = "done" /\ calls[1].exc = "") =>
          /\ result = None
          /\ messages =
                IF TruthyVal(calls[1].ret)
                THEN <<Msg("console", "Job cancellation response:", ""), Json(calls[1].ret)>>
                ELSE <<Msg("error", "Failed to cancel the job.", "")>>

C8_Witness ==
    /\ op = "generate_image" /\ pc = "done"
    /\ \E i \in SubmitIdx : calls[i].exc # ""

\* C9: every LoRA lookup is the call get_model_details(modelsSource,
\* versionsSource, id) with id the identifier of the list, and the submitted
\* mapping has exactly one entry {type: 'Lora', strength: 1.0} per air of a
\* first version of a returned 'LORA' record.
C9_LookupArgsAndMapping ==
    /\ \A i \in LookupIdx :
          Lookup(i).args = <<CIVITAI_MODELS, CIVITAI_VERSIONS, lora_list[i]>>
    /\ \A s \in SubmitIdx :
          lora_list # <<>> =>
             Request(s).additionalNetworks =
                [ a \in {b \in Airs : \E i \in LookupIdx :
                            ReturnedAir(i, b) /\ Lookup(i).ret.type = "LORA"}
                  |-> [type |-> "Lora", strength |-> PFloat(1, 0)] ]

\* C10: the scheduler field of every request create_image_cli submits is one of
\* the 24 names of SCHEDULERS.
C10_SchedulerIsListed ==
    /\ Len(SCHEDULERS) = 24
    /\ Cli => \A i \in SubmitIdx : Request(i).params.scheduler \in SchedulerNames

====
